---- MODULE Spec2Model ----
(***************************************************************************)
(* Archiflow backend: the access gate in front of the metered AI           *)
(* endpoints (token verification -> rate limiting -> credit debit -> AI    *)
(* call), in the three revisions of the server kept in the repository:     *)
(*   "v2"   src/unnamed/part_000      auth + rate limit + credits          *)
(*   "auth" src/api/index.js:1-590    auth + credits                       *)
(*   "open" src/api/index.js:592-883  no auth, no credits                  *)
(* Every await of a handler is a suspension point: one action runs the     *)
(* code from one await to the next, so handlers of concurrent requests     *)
(* interleave exactly at the awaits, as on the single-threaded event loop. *)
(***************************************************************************)
EXTENDS Integers, Sequences, FiniteSets, TLC

\* ---- bounds of the model ------------------------------------------------
MaxRace == 2      \* requests served in a run with two requests in flight
MaxBurst == 33    \* requests served in a run with one request in flight
MaxTicks == 1     \* clock advances in a run
MaxAccountOps == 3  \* requests served in a run that also manages accounts
MaxWindowOps == 3   \* requests served in a run that starts with a used window
MaxRecordOps == 3   \* requests served in a run on projects, calls, templates
MaxSharedOps == 3   \* requests served in a run that mixes route kinds
MaxLive == 2        \* requests served in a run whose collaborators all answer

\* ---- program constants --------------------------------------------------
RATE_LIMIT_WINDOW == 60000
RATE_LIMIT_MAX_REQUESTS == 30

Revisions == {"v2", "auth", "open"}
Slots == {1, 2}
Principals == {"u1", "u2"}

\* Authorization headers a client may send: none, a non-Bearer scheme, and
\* Bearer tokens (two tokens of u1, one of u2, one the verifier rejects).
BearerHeaders == {"Bearer t1", "Bearer t1b", "Bearer t2", "Bearer bad"}
Headers == {"none", "Basic x"} \cup BearerHeaders

\* admin.auth().verifyIdToken: the uid a token decodes to ("" = it throws).
TokenUid(h) ==
    CASE h \in {"Bearer t1", "Bearer t1b"} -> "u1"
      [] h = "Bearer t2" -> "u2"
      [] OTHER -> ""

Empty == [x \in {} |-> 0]

\* A load profile: how many requests may be in flight, how many are served,
\* how often and by how much the clock is seen to advance (a whole window,
\* one millisecond more than a window), and the Authorization headers and
\* endpoints the clients use.
RaceLoad == [inflight |-> 2, requests |-> MaxRace, ticks |-> MaxTicks,
             steps |-> {RATE_LIMIT_WINDOW + 1},
             headers |-> {"none", "Basic x", "Bearer bad", "Bearer t1"},
             endpoints |-> {"transcribe", "generate-report", "refine-report",
                            "convert-pdf"}]
BurstLoad == [inflight |-> 1, requests |-> MaxBurst, ticks |-> MaxTicks,
              steps |-> {RATE_LIMIT_WINDOW, RATE_LIMIT_WINDOW + 1},
              headers |-> {"Bearer t1"}, endpoints |-> {"convert-pdf"}]

\* Clients that also use the account routes (PUT or POST /api/users).
AccountLoad == [inflight |-> 2, requests |-> MaxAccountOps, ticks |-> MaxTicks,
                steps |-> {RATE_LIMIT_WINDOW + 1},
                headers |-> {"Bearer t1"},
                endpoints |-> {"convert-pdf", "users-put", "users-post"}]
\* Sequential requests of two principals, one of them with two tokens.
WindowLoad == [inflight |-> 1, requests |-> MaxWindowOps, ticks |-> MaxTicks,
               steps |-> {RATE_LIMIT_WINDOW + 1},
               headers |-> {"Bearer t1", "Bearer t1b", "Bearer t2"},
               endpoints |-> {"convert-pdf"}]

\* Two principals that create, change and remove records under the same id,
\* one request after the other.
RecordLoad == [inflight |-> 1, requests |-> MaxRecordOps, ticks |-> MaxTicks,
               steps |-> {RATE_LIMIT_WINDOW + 1},
               headers |-> {"Bearer t1", "Bearer t2"},
               endpoints |-> {"projects-get", "projects-post", "projects-delete",
                              "calls-post", "calls-put", "calls-delete",
                              "templates-post"}]

\* One principal that lists its projects and calls metered endpoints.
SharedLoad == [inflight |-> 1, requests |-> MaxSharedOps, ticks |-> MaxTicks,
               steps |-> {RATE_LIMIT_WINDOW + 1},
               headers |-> {"Bearer t1"},
               endpoints |-> {"transcribe", "convert-pdf", "projects-get"}]

\* Two requests in flight to the endpoints with and without the
\* clarification answer, with a missing, an invalid and a valid token.
LiveLoad == [inflight |-> 2, requests |-> MaxLive, ticks |-> MaxTicks,
             steps |-> {RATE_LIMIT_WINDOW + 1},
             headers |-> {"none", "Bearer bad", "Bearer t1"},
             endpoints |-> {"transcribe", "refine-report"}]

\* The principals the clients of a load can authenticate as.
Clients(l) == {TokenUid(h) : h \in l.headers} \ {""}

\* Account records the database may hold when the server starts.
InitAccounts == {[creditsUsed |-> 0],
                 [creditsTotal |-> 0, creditsUsed |-> 0],
                 [creditsTotal |-> 1, creditsUsed |-> 0],
                 [creditsTotal |-> 10, creditsUsed |-> 9]}
InitUsers(l) == UNION {[D -> InitAccounts] : D \in SUBSET Clients(l)}

VARIABLES
    revision,      \* which revision of the server is deployed
    dbConfigured,  \* db !== null
    users,         \* Ledger Store: users/<uid> -> record (absent = no record)
    records,       \* projects, calls, templates: <<collection, id>> -> record
    rateLimits,    \* the rateLimits Map: uid -> [count, windowStart]
    now,           \* Date.now(), relative to server start
    req,           \* per slot: the request being handled
    load,          \* load profile of the run
    arrived,       \* requests arrived so far
    ticks,         \* clock advances so far
    users0,        \* history: the Ledger Store at server start
    debits,        \* history: per uid, debits that reported success
    hits,          \* history: per uid, rate checks since windowStart last moved
    plain          \* history: those of them made for a non-metered route

vars == <<revision, dbConfigured, users, records, rateLimits, now, req, load,
          arrived, ticks, users0, debits, hits, plain>>

\* id and fields are req.params.id (or req.body.id) and the JSON body of a
\* request to an account route; updates is the object such a request writes;
\* sent counts the responses written to res.
IdleReq == [pc |-> "idle", ep |-> "", hdr |-> "none", body |-> TRUE, uid |-> "",
            creditResult |-> [success |-> FALSE], writeVal |-> 0,
            aiOutcome |-> "", status |-> 0, out |-> Empty, log |-> <<>>,
            id |-> "", fields |-> Empty, updates |-> Empty, sent |-> 0]

InitWith(l) ==
    /\ revision \in Revisions
    /\ dbConfigured \in BOOLEAN
    /\ users \in (IF dbConfigured THEN InitUsers(l) ELSE {Empty})
    /\ users0 = users
    /\ records = Empty
    /\ rateLimits = Empty
    /\ now = 0
    /\ req = [r \in Slots |-> IdleReq]
    /\ load = l
    /\ arrived = 0
    /\ ticks = 0
    /\ debits = [p \in Principals |-> [count |-> 0, sum |-> 0]]
    /\ plain = [p \in Principals |-> 0]
    /\ hits = [p \in Principals |-> 0]

Init == InitWith(RaceLoad)
InitBurst == InitWith(BurstLoad)
InitAccount == InitWith(AccountLoad)
InitLive == InitWith(LiveLoad)

\* The rateLimits Map once u2 has used up, or all but used up, the window it
\* opened at server start (a burst of one principal gets there: 29 or 30
\* admitted requests), or before any request.
UsedWindows ==
    {Empty} \cup {[p \in {"u2"} |-> [count |-> c, windowStart |-> 0]] :
                     c \in {RATE_LIMIT_MAX_REQUESTS - 1, RATE_LIMIT_MAX_REQUESTS}}

\* The server some requests of u2 after its start; only v2 keeps windows.
InitWindow ==
    /\ revision \in Revisions
    /\ dbConfigured \in BOOLEAN
    /\ users \in (IF dbConfigured THEN InitUsers(WindowLoad) ELSE {Empty})
    /\ users0 = users
    /\ records = Empty
    /\ rateLimits \in (IF revision = "v2" THEN UsedWindows ELSE {Empty})
    /\ now = 0
    /\ req = [r \in Slots |-> IdleReq]
    /\ load = WindowLoad
    /\ arrived = 0
    /\ ticks = 0
    /\ debits = [p \in Principals |-> [count |-> 0, sum |-> 0]]
    /\ plain = [p \in Principals |-> 0]
    /\ hits = [p \in Principals |->
                 IF p \in DOMAIN rateLimits THEN rateLimits[p].count ELSE 0]

\* The rateLimits Map once u1 has listed its projects 28 or 29 times in the
\* window it opened at server start, or before any request.
ListedWindows ==
    {Empty} \cup {[p \in {"u1"} |-> [count |-> c, windowStart |-> 0]] :
                     c \in {RATE_LIMIT_MAX_REQUESTS - 2,
                            RATE_LIMIT_MAX_REQUESTS - 1}}

\* The server some GET /api/projects of u1 after its start.
InitShared ==
    /\ revision \in Revisions
    /\ dbConfigured \in BOOLEAN
    /\ users \in (IF dbConfigured THEN InitUsers(SharedLoad) ELSE {Empty})
    /\ users0 = users
    /\ records = Empty
    /\ rateLimits \in (IF revision = "v2" THEN ListedWindows ELSE {Empty})
    /\ now = 0
    /\ req = [r \in Slots |-> IdleReq]
    /\ load = SharedLoad
    /\ arrived = 0
    /\ ticks = 0
    /\ debits = [p \in Principals |-> [count |-> 0, sum |-> 0]]
    /\ hits = [p \in Principals |->
                 IF p \in DOMAIN rateLimits THEN rateLimits[p].count ELSE 0]
    /\ plain = hits

\* A protected revision with empty collections and no account records.
InitRecords ==
    /\ revision \in {"v2", "auth"}
    /\ dbConfigured \in BOOLEAN
    /\ users = Empty
    /\ users0 = users
    /\ records = Empty
    /\ rateLimits = Empty
    /\ now = 0
    /\ req = [r \in Slots |-> IdleReq]
    /\ load = RecordLoad
    /\ arrived = 0
    /\ ticks = 0
    /\ debits = [p \in Principals |-> [count |-> 0, sum |-> 0]]
    /\ plain = [p \in Principals |-> 0]
    /\ hits = [p \in Principals |-> 0]

\* ---- helpers ------------------------------------------------------------
\* JavaScript `rec.f || d`: the default applies when f is missing or falsy (0).
OrDefault(rec, f, d) ==
    IF f \in DOMAIN rec /\ rec[f] # 0 THEN rec[f] ELSE d

\* A JSON object keeps a property only when its value is defined.
Prop(name, rec, f) ==
    IF f \in DOMAIN rec THEN name :> rec[f] ELSE Empty

Range(s) == {s[i] : i \in DOMAIN s}

\* The stages a request went through are logged in order: "verifyIdToken"
\* (verifier called), "verified", "checkRateLimit", "admitted", "once" (ledger
\* read issued), "update" (ledger write issued), "debited", "fetch" (AI call).
Has(q, e) == e \in Range(q.log)

Logged(q, e) == [q EXCEPT !.log = Append(@, e)]

\* res.status(code).json(out): the terminal response of a request.
Respond(q, code, payload) ==
    [q EXCEPT !.pc = "done", !.status = code, !.out = payload,
              !.sent = @ + 1]

\* ---- routes ---------------------------------------------------------------
Endpoints(rev) ==
    IF rev = "open" THEN {"transcribe", "generate-report", "convert-pdf"}
    ELSE {"transcribe", "generate-report", "refine-report", "convert-pdf"}

Protected(rev) == rev \in {"v2", "auth"}

\* Bodies an endpoint distinguishes: required fields present or not
\* (convert-pdf reads nothing from the body).
Bodies(ep) == IF ep = "convert-pdf" THEN {TRUE} ELSE BOOLEAN

\* The amount each handler passes to useCredits.
Cost(rev, ep) ==
    IF rev = "auth" /\ ep = "generate-report" THEN 2 ELSE 1

\* The quota useCredits assumes when creditsTotal is missing or 0.
DefaultTotal(rev) == IF rev = "v2" THEN 10 ELSE 100

\* ---- rate limiting --------------------------------------------------------
\* Variant: the admit test is `count < RATE_LIMIT_MAX_REQUESTS`.
checkRateLimit_Strict(limits, userId, t) ==
    LET userLimits == IF userId \in DOMAIN limits THEN limits[userId]
                      ELSE [count |-> 0, windowStart |-> t]
        updated == IF t - userLimits.windowStart > RATE_LIMIT_WINDOW
                   THEN [count |-> 1, windowStart |-> t]
                   ELSE [userLimits EXCEPT !.count = @ + 1]
    IN  [limits |-> [u \in DOMAIN limits \cup {userId} |->
                        IF u = userId THEN updated ELSE limits[u]],
         ok |-> updated.count < RATE_LIMIT_MAX_REQUESTS]

\* Variant: the counter is stored only for a request that is admitted.
checkRateLimit_AdmittedOnly(limits, userId, t) ==
    LET userLimits == IF userId \in DOMAIN limits THEN limits[userId]
                      ELSE [count |-> 0, windowStart |-> t]
        updated == IF t - userLimits.windowStart > RATE_LIMIT_WINDOW
                   THEN [count |-> 1, windowStart |-> t]
                   ELSE [userLimits EXCEPT !.count = @ + 1]
        ok == updated.count <= RATE_LIMIT_MAX_REQUESTS
    IN  [limits |-> [u \in DOMAIN limits \cup {userId} |->
                        IF u = userId /\ ok THEN updated
                        ELSE IF u = userId THEN userLimits ELSE limits[u]],
         ok |-> ok]

\* Variant: the entry is updated on a copy, which is stored only when the
\* principal had no entry yet.
checkRateLimit_CopyNotStored(limits, userId, t) ==
    LET userLimits == IF userId \in DOMAIN limits THEN limits[userId]
                      ELSE [count |-> 0, windowStart |-> t]
        updated == IF t - userLimits.windowStart > RATE_LIMIT_WINDOW
                   THEN [count |-> 1, windowStart |-> t]
                   ELSE [userLimits EXCEPT !.count = @ + 1]
    IN  [limits |-> [u \in DOMAIN limits \cup {userId} |->
                        IF u \in DOMAIN limits THEN limits[u] ELSE updated],
         ok |-> updated.count <= RATE_LIMIT_MAX_REQUESTS]

\* Variant: a rejected request restarts the window (windowStart = now).
checkRateLimit_RejectRestarts(limits, userId, t) ==
    LET userLimits == IF userId \in DOMAIN limits THEN limits[userId]
                      ELSE [count |-> 0, windowStart |-> t]
        counted == IF t - userLimits.windowStart > RATE_LIMIT_WINDOW
                   THEN [count |-> 1, windowStart |-> t]
                   ELSE [userLimits EXCEPT !.count = @ + 1]
        updated == IF counted.count <= RATE_LIMIT_MAX_REQUESTS THEN counted
                   ELSE [counted EXCEPT !.windowStart = t]
    IN  [limits |-> [u \in DOMAIN limits \cup {userId} |->
                        IF u = userId THEN updated ELSE limits[u]],
         ok |-> updated.count <= RATE_LIMIT_MAX_REQUESTS]

checkRateLimit(limits, userId, t) ==
    LET userLimits == IF userId \in DOMAIN limits THEN limits[userId]
                      ELSE [count |-> 0, windowStart |-> t]
        updated == IF t - userLimits.windowStart > RATE_LIMIT_WINDOW
                   THEN [count |-> 1, windowStart |-> t]
                   ELSE [userLimits EXCEPT !.count = @ + 1]
    IN  [limits |-> [u \in DOMAIN limits \cup {userId} |->
                        IF u = userId THEN updated ELSE limits[u]],
         ok |-> updated.count <= RATE_LIMIT_MAX_REQUESTS]

\* ---- credit accounting ----------------------------------------------------
\* Variant: the balance test is `available <= 0` instead of `available < amount`.
useCreditsDecide_PositiveOnly(rev, store, userId, amount) ==
    IF userId \notin DOMAIN store
    THEN [write |-> FALSE,
          result |-> IF rev = "v2"
                     THEN [success |-> FALSE, error |-> <<"Utente non trovato">>]
                     ELSE [success |-> FALSE]]
    ELSE LET user == store[userId]
             creditsTotal == OrDefault(user, "creditsTotal", DefaultTotal(rev))
             creditsUsed == OrDefault(user, "creditsUsed", 0)
             available == creditsTotal - creditsUsed
         IN  IF available <= 0
             THEN [write |-> FALSE,
                   result |-> IF rev = "v2"
                              THEN [success |-> FALSE,
                                    error |-> <<"Crediti insufficienti", available, amount>>,
                                    available |-> available,
                                    required |-> amount]
                              ELSE [success |-> FALSE]]
             ELSE [write |-> TRUE,
                   creditsUsed |-> creditsUsed + amount,
                   result |-> IF rev = "v2"
                              THEN [success |-> TRUE, remaining |-> available - amount]
                              ELSE [success |-> TRUE]]

\* Variant: a missing record is read as an empty one (`snapshot.val() || {}`),
\* so the default quota applies to it.
useCreditsDecide_DefaultAccount(rev, store, userId, amount) ==
    LET user == IF userId \in DOMAIN store THEN store[userId] ELSE Empty
        creditsTotal == OrDefault(user, "creditsTotal", DefaultTotal(rev))
        creditsUsed == OrDefault(user, "creditsUsed", 0)
        available == creditsTotal - creditsUsed
    IN  IF available < amount
        THEN [write |-> FALSE,
              result |-> IF rev = "v2"
                         THEN [success |-> FALSE,
                               error |-> <<"Crediti insufficienti", available, amount>>,
                               available |-> available,
                               required |-> amount]
                         ELSE [success |-> FALSE]]
        ELSE [write |-> TRUE,
              creditsUsed |-> creditsUsed + amount,
              result |-> IF rev = "v2"
                         THEN [success |-> TRUE, remaining |-> available - amount]
                         ELSE [success |-> TRUE]]

\* useCredits after `await userRef.once('value')` returned `store[userId]`:
\* either the result it returns at once, or the update it issues.
useCreditsDecide(rev, store, userId, amount) ==
    IF userId \notin DOMAIN store
    THEN [write |-> FALSE,
          result |-> IF rev = "v2"
                     THEN [success |-> FALSE, error |-> <<"Utente non trovato">>]
                     ELSE [success |-> FALSE]]
    ELSE LET user == store[userId]
             creditsTotal == OrDefault(user, "creditsTotal", DefaultTotal(rev))
             creditsUsed == OrDefault(user, "creditsUsed", 0)
             available == creditsTotal - creditsUsed
         IN  IF available < amount
             THEN [write |-> FALSE,
                   result |-> IF rev = "v2"
                              THEN [success |-> FALSE,
                                    error |-> <<"Crediti insufficienti", available, amount>>,
                                    available |-> available,
                                    required |-> amount]
                              ELSE [success |-> FALSE]]
             ELSE [write |-> TRUE,
                   creditsUsed |-> creditsUsed + amount,
                   result |-> IF rev = "v2"
                              THEN [success |-> TRUE, remaining |-> available - amount]
                              ELSE [success |-> TRUE]]

\* userRef.update({creditsUsed: v}): sets one field, keeps the others.
ledgerUpdate(store, userId, v) ==
    [u \in DOMAIN store \cup {userId} |->
        IF u # userId THEN store[u]
        ELSE IF u \in DOMAIN store
             THEN [f \in DOMAIN store[u] \cup {"creditsUsed"} |->
                      IF f = "creditsUsed" THEN v ELSE store[u][f]]
             ELSE [creditsUsed |-> v]]

\* The handler's `if (!creditResult.success) return res.status(402).json(...)`.
creditRejected(rev, q, result) ==
    LET text == IF rev = "v2" THEN [error |-> result.error]
                ELSE [error |-> <<"Crediti insufficienti">>]
        payload ==
            CASE rev = "v2" /\ q.ep = "transcribe" ->
                    text @@ Prop("creditsAvailable", result, "available")
                         @@ Prop("creditsRequired", result, "required")
              [] rev = "v2" /\ q.ep = "generate-report" ->
                    text @@ Prop("creditsAvailable", result, "available")
              [] OTHER -> text
    IN  Respond([q EXCEPT !.creditResult = result], 402, payload)

\* callOpenRouter / fetch is dispatched: the request now awaits the AI.
dispatchAi(q) == [Logged(q, "fetch") EXCEPT !.pc = "fetch"]

\* useCredits up to its first await.
useCreditsBegin(rev, configured, q) ==
    IF ~configured
    THEN creditRejected(rev, q,
            IF rev = "v2"
            THEN [success |-> FALSE, error |-> <<"Database non configurato">>]
            ELSE [success |-> FALSE])
    ELSE [Logged(q, "once") EXCEPT !.pc = "once"]

\* Variant: the protected handlers debit before they look at the body.
aiHandler_DebitFirst(rev, configured, q) ==
    IF rev = "open"
    THEN IF ~q.body THEN Respond(q, 400, [error |-> <<"missing field">>])
         ELSE dispatchAi(q)
    ELSE useCreditsBegin(rev, configured, q)

\* A metered route handler from its entry to its first await.
aiHandler(rev, configured, q) ==
    IF ~q.body THEN Respond(q, 400, [error |-> <<"missing field">>])
    ELSE IF rev = "open" THEN dispatchAi(q)
    ELSE useCreditsBegin(rev, configured, q)

\* ---- account routes -------------------------------------------------------
\* The routes that write users/<id>: PUT /api/users/:id behind verifyToken
\* (v2, auth) and the unauthenticated POST /api/users (open).
AccountRoutes(rev) == IF rev = "open" THEN {"users-post"} ELSE {"users-put"}

\* JSON bodies a client may send to them.
PutBodies == {Empty, [name |-> "n"], [creditsUsed |-> 0, creditsTotal |-> 99]}
PostBodies == {[name |-> "n"], [email |-> "E "],
               [email |-> "E ", name |-> "n", plan |-> "p", creditsTotal |-> 5,
                avatar |-> "a"]}
AccountBodies(ep) == IF ep = "users-put" THEN PutBodies ELSE PostBodies

\* The ids a client may name: its own, another principal's, none.
AccountIds(ep) == IF ep = "users-put" THEN {"u1", "u2"} ELSE {"", "u1", "u2"}

Restrict(f, D) == [k \in DOMAIN f \cap D |-> f[k]]

\* email.toLowerCase().trim()
LowerTrim(e) == IF e = "E " THEN "e" ELSE e

\* ref.update(updates): sets the given fields, keeps the others.
dbUpdate(store, id, updates) ==
    IF DOMAIN updates = {} THEN store
    ELSE [u \in DOMAIN store \cup {id} |->
            IF u # id THEN store[u]
            ELSE IF u \in DOMAIN store THEN updates @@ store[u] ELSE updates]

\* ref.set(value): replaces the record.
dbSet(store, id, value) ==
    [u \in DOMAIN store \cup {id} |-> IF u = id THEN value ELSE store[u]]

\* PUT /api/users/:id from its entry to its await: v2 copies the allowed
\* fields, auth deletes id and creditsTotal from the body and writes the rest.
usersPut(rev, configured, q) ==
    IF ~configured THEN Respond(q, 503, [error |-> <<"Database non configurato">>])
    ELSE IF q.id # q.uid THEN Respond(q, 403, [error |-> <<"Accesso negato">>])
    ELSE LET updates ==
                 IF rev = "v2" THEN Restrict(q.fields, {"name", "avatar"})
                 ELSE Restrict(q.fields, DOMAIN q.fields \ {"id", "creditsTotal"})
         IN  IF rev = "v2" /\ DOMAIN updates = {}
             THEN Respond(q, 400, [error |-> <<"Nessun campo valido">>])
             ELSE [q EXCEPT !.pc = "userWrite", !.updates = updates]

\* POST /api/users (open) from its entry to its await. set() throws on a
\* value with an undefined property, which the handler's catch answers 500.
usersPost(configured, t, q) ==
    IF ~configured THEN Respond(q, 503, [error |-> <<"Database not configured">>])
    ELSE IF q.id = "" \/ "email" \notin DOMAIN q.fields
    THEN Respond(q, 400, [error |-> <<"Missing required fields">>])
    ELSE IF ~({"name", "plan", "creditsTotal", "avatar"} \subseteq DOMAIN q.fields)
    THEN Respond(q, 500, [error |-> <<"server error">>])
    ELSE [q EXCEPT !.pc = "userWrite",
                   !.updates = [id |-> q.id, email |-> LowerTrim(q.fields.email),
                                name |-> q.fields.name, plan |-> q.fields.plan,
                                creditsTotal |-> q.fields.creditsTotal,
                                creditsUsed |-> 0, avatar |-> q.fields.avatar,
                                createdAt |-> t]]

\* ---- record routes --------------------------------------------------------
\* The routes of the protected revisions that read or write projects, calls
\* and templates (of the read-only routes, GET /api/projects stands for all).
RecordRoutes == {"projects-get", "projects-post", "projects-delete",
                 "calls-post", "calls-put", "calls-delete", "templates-post"}
PostRoutes == {"projects-post", "calls-post", "templates-post"}

Collection(ep) ==
    IF ep \in {"projects-get", "projects-post", "projects-delete"} THEN "projects"
    ELSE IF ep \in {"calls-post", "calls-put", "calls-delete"} THEN "calls"
    ELSE "templates"

\* The path a request names: projects/<id>, calls/<id>, templates/<id>.
PathOf(q) == <<Collection(q.ep), q.id>>

\* JSON bodies a client may send (the id travels in q.id: req.body.id of a
\* POST, req.params.id of a PUT or DELETE; "" is a missing id).
RecordBodies(ep) ==
    IF ep = "projects-post"
    THEN {Empty, [title |-> " T"],
          [title |-> " T", description |-> "d", color |-> "c"]}
    ELSE IF ep = "calls-post"
    THEN {Empty, [projectId |-> "p1"], [projectId |-> "p1", title |-> "t"],
          [projectId |-> "p1", title |-> "t", roomTitle |-> "r",
           transcript |-> "x", summary |-> "s", reportHtml |-> "h",
           areas |-> <<"a">>, images |-> <<"i">>]}
    ELSE IF ep = "templates-post"
    THEN {Empty, [name |-> "N "],
          [name |-> "N ", description |-> "d", htmlContent |-> "h"]}
    ELSE IF ep = "calls-put"
    THEN {Empty, [title |-> "t2"], [title |-> "t2", userId |-> "u2"]}
    ELSE {Empty}

RecordIds == {"", "r1"}

\* s.trim()
Trim(s) == IF s = " T" THEN "T" ELSE IF s = "N " THEN "N" ELSE s

\* JavaScript `rec.f || d` on strings: d when f is missing or "".
OrElse(rec, f, d) == IF f \in DOMAIN rec /\ rec[f] # "" THEN rec[f] ELSE d

\* `rec.f || d` on arrays: an array is truthy even when empty.
Given(rec, f, d) == IF f \in DOMAIN rec THEN rec[f] ELSE d

\* validateRequired / `!id || !title`: the required field of a POST body.
RequiredField(ep) ==
    IF ep = "projects-post" THEN "title"
    ELSE IF ep = "calls-post" THEN "projectId" ELSE "name"

\* The object a POST route builds from the body; a property whose value is
\* undefined is left out, and Defined tells whether there was none.
newRecord(rev, t, q) ==
    LET b == q.fields
        own == [id |-> q.id, userId |-> q.uid, createdAt |-> t]
    IN  IF q.ep = "projects-post"
        THEN IF rev = "v2"
             THEN own @@ [title |-> Trim(b.title),
                          description |->
                              IF "description" \in DOMAIN b
                              THEN OrElse([d |-> Trim(b.description)], "d", "")
                              ELSE "",
                          color |-> OrElse(b, "color", "#3B82F6"),
                          updatedAt |-> t]
             ELSE own @@ Restrict(b, {"title", "description", "color"})
        ELSE IF q.ep = "calls-post"
        THEN IF rev = "v2"
             THEN own @@ [title |-> OrElse(b, "title",
                                       OrElse(b, "roomTitle", "Nuova chiamata")),
                          projectId |-> b.projectId,
                          transcript |-> OrElse(b, "transcript", ""),
                          summary |-> OrElse(b, "summary", ""),
                          reportHtml |-> OrElse(b, "reportHtml", ""),
                          areas |-> Given(b, "areas", <<>>),
                          images |-> Given(b, "images", <<>>),
                          status |-> IF OrElse(b, "transcript", "") # ""
                                     THEN "completed" ELSE "draft",
                          updatedAt |-> t]
                      @@ (IF OrElse(b, "roomTitle", OrElse(b, "title", "")) # ""
                          THEN [roomTitle |->
                                  OrElse(b, "roomTitle", OrElse(b, "title", ""))]
                          ELSE Empty)
             ELSE own @@ Restrict(b, {"roomTitle", "projectId", "transcript",
                                      "summary", "reportHtml", "areas", "images"})
                      @@ (IF OrElse(b, "title", OrElse(b, "roomTitle", "")) # ""
                          THEN [title |->
                                  OrElse(b, "title", OrElse(b, "roomTitle", ""))]
                          ELSE Empty)
        ELSE IF rev = "v2"
             THEN own @@ [name |-> Trim(b.name),
                          description |->
                              IF "description" \in DOMAIN b
                              THEN OrElse([d |-> Trim(b.description)], "d", "")
                              ELSE "",
                          htmlContent |-> OrElse(b, "htmlContent", ""),
                          category |-> OrElse(b, "category", "Custom")]
             ELSE own @@ Restrict(b, {"name", "description", "htmlContent"})

\* The properties the object literal of a POST route lists.
RecordShape(rev, ep) ==
    {"id", "userId", "createdAt"} \cup
    (IF ep = "projects-post"
     THEN {"title", "description", "color"}
             \cup (IF rev = "v2" THEN {"updatedAt"} ELSE {})
     ELSE IF ep = "calls-post"
     THEN {"title", "roomTitle", "projectId", "transcript", "summary",
           "reportHtml", "areas", "images"}
             \cup (IF rev = "v2" THEN {"status", "updatedAt"} ELSE {})
     ELSE {"name", "description", "htmlContent"}
             \cup (IF rev = "v2" THEN {"category"} ELSE {}))

\* ref.remove()
dbRemove(store, id) == [u \in DOMAIN store \ {id} |-> store[u]]

\* The userId a stored record carries ("" when it carries none).
OwnerOf(rec) == IF "userId" \in DOMAIN rec THEN rec.userId ELSE ""

\* POST /api/projects, /api/calls, /api/templates from the validation to the
\* await of set(); set() throws on an undefined property, which the catch
\* answers 500.
postRecord(rev, t, q) ==
    IF q.id = "" \/ OrElse(q.fields, RequiredField(q.ep), "") = ""
    THEN Respond(q, 400, [error |-> <<"Campi mancanti">>])
    ELSE IF DOMAIN newRecord(rev, t, q) # RecordShape(rev, q.ep)
    THEN Respond(q, 500, [error |-> <<"server error">>])
    ELSE [q EXCEPT !.pc = "recordWrite", !.updates = newRecord(rev, t, q)]

\* A record route from its entry to its first await.
recordHandler(rev, configured, t, q) ==
    IF ~configured THEN Respond(q, 503, [error |-> <<"Database non configurato">>])
    ELSE IF q.ep \in PostRoutes THEN postRecord(rev, t, q)
    ELSE [q EXCEPT !.pc = "recordRead"]

\* next(): the route handler that runs once verifyToken let the request pass.
routeHandler(rev, configured, t, q) ==
    IF q.ep \in AccountRoutes(rev) THEN usersPut(rev, configured, q)
    ELSE IF q.ep \in RecordRoutes THEN recordHandler(rev, configured, t, q)
    ELSE aiHandler(rev, configured, q)

\* Variant: the 429 branch lacks its `return`, so next() still runs.
verifyTokenResolved_NoReturn(rev, configured, limits, t, q, uid) ==
    LET rl == checkRateLimit(limits, uid, t)
        q2 == Logged([Logged(q, "verified") EXCEPT !.uid = uid], "checkRateLimit")
    IN  IF rev = "v2"
        THEN [limits |-> rl.limits,
              req |-> IF rl.ok THEN routeHandler(rev, configured, t, Logged(q2, "admitted"))
                      ELSE [routeHandler(rev, configured, t, q2) EXCEPT !.status = 429]]
        ELSE [limits |-> limits,
              req |-> routeHandler(rev, configured, t,
                                [Logged(q, "verified") EXCEPT !.uid = uid])]

\* Variant: the rate-limit block is missing (as in the auth revision).
verifyTokenResolved_NoRateLimit(rev, configured, limits, t, q, uid) ==
    [limits |-> limits,
     req |-> routeHandler(rev, configured, t, [Logged(q, "verified") EXCEPT !.uid = uid])]

\* Variant: the window is keyed by the token instead of by decoded.uid.
verifyTokenResolved_KeyedByToken(rev, configured, limits, t, q, uid) ==
    LET q1 == [Logged(q, "verified") EXCEPT !.uid = uid]
    IN  IF rev = "v2"
        THEN LET rl == checkRateLimit(limits, q.hdr, t)
                 q2 == Logged(q1, "checkRateLimit")
             IN  IF ~rl.ok
                 THEN [limits |-> rl.limits,
                       req |-> Respond(q2, 429, [error |-> <<"Troppe richieste">>])]
                 ELSE [limits |-> rl.limits,
                       req |-> routeHandler(rev, configured, t, Logged(q2, "admitted"))]
        ELSE [limits |-> limits, req |-> routeHandler(rev, configured, t, q1)]

\* Variant: only the metered routes are rate limited.
verifyTokenResolved_MeteredOnly(rev, configured, limits, t, q, uid) ==
    LET q1 == [Logged(q, "verified") EXCEPT !.uid = uid]
    IN  IF rev = "v2" /\ q.ep \notin RecordRoutes
        THEN LET rl == checkRateLimit(limits, uid, t)
                 q2 == Logged(q1, "checkRateLimit")
             IN  IF ~rl.ok
                 THEN [limits |-> rl.limits,
                       req |-> Respond(q2, 429, [error |-> <<"Troppe richieste">>])]
                 ELSE [limits |-> rl.limits,
                       req |-> routeHandler(rev, configured, t, Logged(q2, "admitted"))]
        ELSE [limits |-> limits, req |-> routeHandler(rev, configured, t, q1)]

\* verifyToken after `await admin.auth().verifyIdToken(token)` resolved to uid.
verifyTokenResolved(rev, configured, limits, t, q, uid) ==
    LET q1 == [Logged(q, "verified") EXCEPT !.uid = uid]
    IN  IF rev = "v2"
        THEN LET rl == checkRateLimit(limits, uid, t)
                 q2 == Logged(q1, "checkRateLimit")
             IN  IF ~rl.ok
                 THEN [limits |-> rl.limits,
                       req |-> Respond(q2, 429, [error |-> <<"Troppe richieste">>])]
                 ELSE [limits |-> rl.limits,
                       req |-> routeHandler(rev, configured, t, Logged(q2, "admitted"))]
        ELSE [limits |-> limits, req |-> routeHandler(rev, configured, t, q1)]

\* Variant: a request without a Bearer header is let through (optionalAuth).
verifyToken_Optional(q) ==
    IF q.hdr \notin BearerHeaders
    THEN routeHandler(revision, dbConfigured, now, q)
    ELSE [Logged(q, "verifyIdToken") EXCEPT !.pc = "verifyIdToken"]

\* Variant: the limiter is consulted before the header is checked, so a
\* request without a token is answered 429 while some window is open.
verifyToken_LimiterFirst(q) ==
    IF q.hdr \notin BearerHeaders
    THEN IF DOMAIN rateLimits # {}
         THEN Respond(q, 429, [error |-> <<"Troppe richieste">>])
         ELSE Respond(q, 401, [error |-> <<"missing token">>])
    ELSE [Logged(q, "verifyIdToken") EXCEPT !.pc = "verifyIdToken"]

\* Variant: only a missing header is refused (`if (!authHeader)`), so a header
\* of another scheme is handed to the verifier.
verifyToken_AnyScheme(q) ==
    IF q.hdr = "none"
    THEN Respond(q, 401, [error |-> <<"missing token">>])
    ELSE [Logged(q, "verifyIdToken") EXCEPT !.pc = "verifyIdToken"]

\* verifyToken from its entry to its first await.
verifyToken(q) ==
    IF q.hdr \notin BearerHeaders
    THEN Respond(q, 401, [error |-> <<"missing token">>])
    ELSE [Logged(q, "verifyIdToken") EXCEPT !.pc = "verifyIdToken"]

\* ---- actions --------------------------------------------------------------
InFlight == {r \in Slots : req[r].pc \notin {"idle", "done"}}

\* A request arrives, takes the lowest free slot (a slot is free once its
\* request was answered) and runs to its first await.
Arrive(r, ep, hdr, body) ==
    /\ req[r].pc \in {"idle", "done"}
    /\ arrived < load.requests
    /\ Cardinality(InFlight) < load.inflight
    /\ \A s \in Slots : s < r => s \in InFlight
    /\ hdr \in load.headers
    /\ ep \in load.endpoints
    /\ LET q == [IdleReq EXCEPT !.pc = "start", !.ep = ep, !.hdr = hdr, !.body = body]
       IN  req' = [req EXCEPT ![r] = IF Protected(revision) THEN verifyToken(q)
                                     ELSE aiHandler(revision, dbConfigured, q)]
    /\ arrived' = arrived + 1
    /\ UNCHANGED <<records, revision, dbConfigured, users, rateLimits, now, load, ticks,
                   users0, debits, hits, plain>>

\* A request to an account route arrives.
ArriveAccount(r, ep, hdr, id, fields) ==
    /\ req[r].pc \in {"idle", "done"}
    /\ arrived < load.requests
    /\ Cardinality(InFlight) < load.inflight
    /\ \A s \in Slots : s < r => s \in InFlight
    /\ hdr \in load.headers
    /\ ep \in load.endpoints
    /\ LET q == [IdleReq EXCEPT !.pc = "start", !.ep = ep, !.hdr = hdr,
                                !.id = id, !.fields = fields]
       IN  req' = [req EXCEPT ![r] = IF Protected(revision) THEN verifyToken(q)
                                     ELSE usersPost(dbConfigured, now, q)]
    /\ arrived' = arrived + 1
    /\ UNCHANGED <<records, revision, dbConfigured, users, rateLimits, now, load, ticks,
                   users0, debits, hits, plain>>

\* The database applies and acknowledges the write of an account route, or
\* the write fails.
AccountWriteReturns(r, ok) ==
    /\ req[r].pc = "userWrite"
    /\ LET q == req[r]
       IN  IF ok
           THEN /\ users' = IF q.ep = "users-put"
                            THEN dbUpdate(users, q.id, q.updates)
                            ELSE dbSet(users, q.id, q.updates)
                /\ req' = [req EXCEPT ![r] =
                             IF q.ep = "users-put"
                             THEN Respond(q, 200, [success |-> TRUE])
                             ELSE Respond(q, 201, q.updates)]
           ELSE /\ req' = [req EXCEPT ![r] =
                             Respond(q, 500, [error |-> <<"server error">>])]
                /\ UNCHANGED users
    /\ UNCHANGED <<records, revision, dbConfigured, rateLimits, now, load, arrived,
                   ticks, users0, debits, hits, plain>>

\* A request to a record route of a protected revision arrives.
ArriveRecord(r, ep, hdr, id, fields) ==
    /\ Protected(revision)
    /\ req[r].pc \in {"idle", "done"}
    /\ arrived < load.requests
    /\ Cardinality(InFlight) < load.inflight
    /\ \A s \in Slots : s < r => s \in InFlight
    /\ hdr \in load.headers
    /\ ep \in load.endpoints
    /\ LET q == [IdleReq EXCEPT !.pc = "start", !.ep = ep, !.hdr = hdr,
                                !.id = id, !.fields = fields]
       IN  req' = [req EXCEPT ![r] = verifyToken(q)]
    /\ arrived' = arrived + 1
    /\ UNCHANGED <<records, revision, dbConfigured, users, rateLimits, now,
                   load, ticks, users0, debits, hits, plain>>

\* PUT /api/calls/:id after its read: v2 copies the allowed fields and stamps
\* updatedAt, auth deletes id and userId from the body and writes the rest.
callUpdates(rev, t, q) ==
    IF rev = "v2"
    THEN [updatedAt |-> t]
         @@ Restrict(q.fields, {"title", "roomTitle", "transcript", "summary",
                                "reportHtml", "status"})
    ELSE Restrict(q.fields, DOMAIN q.fields \ {"id", "userId"})

\* The database answers the once("value") of a record route, or the read
\* fails: the list of the caller's projects, or the 404 / 403 tests of a PUT
\* or DELETE followed by its write.
RecordReadReturns(r, ok) ==
    /\ req[r].pc = "recordRead"
    /\ LET q == req[r]
           path == PathOf(q)
       IN  req' = [req EXCEPT ![r] =
                     IF ~ok THEN Respond(q, 500, [error |-> <<"server error">>])
                     ELSE IF q.ep = "projects-get"
                     THEN Respond(q, 200,
                            [list |-> {records[x] : x \in
                                         {y \in DOMAIN records :
                                            /\ y[1] = "projects"
                                            /\ OwnerOf(records[y]) = q.uid}}])
                     ELSE IF path \notin DOMAIN records
                     THEN Respond(q, 404, [error |-> <<"non trovato">>])
                     ELSE IF OwnerOf(records[path]) # q.uid
                     THEN Respond(q, 403, [error |-> <<"Accesso negato">>])
                     ELSE [q EXCEPT !.pc = "recordWrite",
                                    !.updates = IF q.ep = "calls-put"
                                                THEN callUpdates(revision, now, q)
                                                ELSE Empty]]
    /\ UNCHANGED <<records, revision, dbConfigured, users, rateLimits, now,
                   load, arrived, ticks, users0, debits, hits, plain>>

\* The database applies and acknowledges the set(), update() or remove() of a
\* record route, or the write fails.
RecordWriteReturns(r, ok) ==
    /\ req[r].pc = "recordWrite"
    /\ LET q == req[r]
           path == PathOf(q)
       IN  IF ok
           THEN /\ records' = IF q.ep \in PostRoutes
                              THEN dbSet(records, path, q.updates)
                              ELSE IF q.ep = "calls-put"
                              THEN dbUpdate(records, path, q.updates)
                              ELSE dbRemove(records, path)
                /\ req' = [req EXCEPT ![r] =
                             IF q.ep \in PostRoutes
                             THEN Respond(q, 201, q.updates)
                             ELSE Respond(q, 200, [success |-> TRUE])]
           ELSE /\ req' = [req EXCEPT ![r] =
                             Respond(q, 500, [error |-> <<"server error">>])]
                /\ UNCHANGED records
    /\ UNCHANGED <<revision, dbConfigured, users, rateLimits, now, load,
                   arrived, ticks, users0, debits, hits, plain>>

\* The Identity Verifier answers: it resolves to the uid of a valid token, or
\* throws (invalid or expired token).
VerifyIdTokenReturns(r) ==
    /\ req[r].pc = "verifyIdToken"
    /\ IF TokenUid(req[r].hdr) # ""
       THEN LET uid == TokenUid(req[r].hdr)
                res == verifyTokenResolved(revision, dbConfigured, rateLimits,
                                           now, req[r], uid)
            IN  /\ req' = [req EXCEPT ![r] = res.req]
                /\ rateLimits' = res.limits
                /\ hits' = IF revision # "v2" THEN hits
                           ELSE [hits EXCEPT ![uid] =
                                   IF uid \in DOMAIN rateLimits
                                      /\ rateLimits'[uid].windowStart
                                           = rateLimits[uid].windowStart
                                   THEN @ + 1 ELSE 1]
                /\ plain' =
                     IF revision # "v2" THEN plain
                     ELSE LET other == IF req[r].ep \in RecordRoutes THEN 1 ELSE 0
                          IN  [plain EXCEPT ![uid] =
                                 IF uid \in DOMAIN rateLimits
                                    /\ uid \in DOMAIN rateLimits'
                                    /\ rateLimits'[uid].windowStart
                                         = rateLimits[uid].windowStart
                                 THEN @ + other ELSE other]
       ELSE /\ req' = [req EXCEPT ![r] =
                         Respond(@, 401, [error |-> <<"invalid token">>])]
            /\ UNCHANGED <<rateLimits, hits, plain>>
    /\ UNCHANGED <<records, revision, dbConfigured, users, now, load, arrived, ticks,
                   users0, debits>>

\* The Ledger Store answers the read of users/<uid>, or the read fails.
LedgerReadReturns(r, ok) ==
    /\ req[r].pc = "once"
    /\ LET q == req[r]
           d == useCreditsDecide(revision, users, q.uid, Cost(revision, q.ep))
       IN  req' = [req EXCEPT ![r] =
                     IF ~ok THEN Respond(q, 500, [error |-> <<"server error">>])
                     ELSE IF ~d.write THEN creditRejected(revision, q, d.result)
                     ELSE [Logged(q, "update") EXCEPT !.pc = "update",
                              !.writeVal = d.creditsUsed,
                              !.creditResult = d.result]]
    /\ UNCHANGED <<records, revision, dbConfigured, users, rateLimits, now, load,
                   arrived, ticks, users0, debits, hits, plain>>

\* Variant: a failed update is issued again.
LedgerWriteReturns_Retry(r, ok) ==
    /\ req[r].pc = "update"
    /\ LET q == req[r]
       IN  IF ok
           THEN /\ users' = ledgerUpdate(users, q.uid, q.writeVal)
                /\ debits' = [debits EXCEPT ![q.uid] =
                                [count |-> @.count + 1,
                                 sum |-> @.sum + Cost(revision, q.ep)]]
                /\ req' = [req EXCEPT ![r] = dispatchAi(Logged(q, "debited"))]
           ELSE /\ req' = [req EXCEPT ![r] = Logged(q, "update")]
                /\ UNCHANGED <<users, debits>>
    /\ UNCHANGED <<records, revision, dbConfigured, rateLimits, now, load, arrived,
                   ticks, users0, hits, plain>>

\* The Ledger Store applies and acknowledges the update, or the update fails.
LedgerWriteReturns(r, ok) ==
    /\ req[r].pc = "update"
    /\ LET q == req[r]
       IN  IF ok
           THEN /\ users' = ledgerUpdate(users, q.uid, q.writeVal)
                /\ debits' = [debits EXCEPT ![q.uid] =
                                [count |-> @.count + 1,
                                 sum |-> @.sum + Cost(revision, q.ep)]]
                /\ req' = [req EXCEPT ![r] = dispatchAi(Logged(q, "debited"))]
           ELSE /\ req' = [req EXCEPT ![r] =
                             Respond(q, 500, [error |-> <<"server error">>])]
                /\ UNCHANGED <<users, debits>>
    /\ UNCHANGED <<records, revision, dbConfigured, rateLimits, now, load, arrived,
                   ticks, users0, hits, plain>>

\* What the AI provider may answer: content, content that starts with
\* "CLARIFICATION:" (only refine-report tells it from other content), an HTTP
\* error status, or no answer (fetch rejects).
AiOutcomes == {"content", "clarification", "notOk", "rejects"}

\* Variant: the clarification branch of refine-report has no `else`, so the
\* handler answers a second time.
aiReturned_NoElse(rev, q0, outcome) ==
    LET q == [q0 EXCEPT !.aiOutcome = outcome]
        clarify == q.ep = "refine-report" /\ outcome = "clarification"
        failed == \/ outcome = "rejects"
                  \/ outcome = "notOk" /\ (rev # "open" \/ q.ep = "transcribe")
        answer == [success |-> TRUE]
                  @@ Prop("creditsRemaining", q.creditResult, "remaining")
    IN  IF failed THEN Respond(q, 500, [error |-> <<"server error">>])
        ELSE IF clarify
        THEN Respond(Respond(q, 200, [success |-> TRUE,
                                      needsClarification |-> TRUE]),
                     200, answer)
        ELSE Respond(q, 200, answer)

\* The handler after `await callOpenRouter(...)` (v2, auth) or after its own
\* fetch (open) settled with `outcome`.
aiReturned(rev, q0, outcome) ==
    LET q == [q0 EXCEPT !.aiOutcome = outcome]
        clarify == q.ep = "refine-report" /\ outcome = "clarification"
        failed == \/ outcome = "rejects"
                  \/ outcome = "notOk" /\ (rev # "open" \/ q.ep = "transcribe")
    IN  IF failed THEN Respond(q, 500, [error |-> <<"server error">>])
        ELSE IF clarify
        THEN Respond(q, 200, [success |-> TRUE, needsClarification |-> TRUE])
        ELSE Respond(q, 200, [success |-> TRUE]
                             @@ Prop("creditsRemaining", q.creditResult, "remaining"))

\* Variant: a failed AI call gives the credit back.
AiReturns_Refund(r, outcome) ==
    /\ req[r].pc = "fetch"
    /\ outcome = "clarification" => req[r].ep = "refine-report"
    /\ req' = [req EXCEPT ![r] = aiReturned(revision, @, outcome)]
    /\ users' = IF req'[r].status = 500 /\ Has(req[r], "debited")
                THEN ledgerUpdate(users, req[r].uid,
                        OrDefault(users[req[r].uid], "creditsUsed", 0)
                          - Cost(revision, req[r].ep))
                ELSE users
    /\ UNCHANGED <<records, revision, dbConfigured, rateLimits, now, load,
                   arrived, ticks, users0, debits, hits, plain>>

AiReturns(r, outcome) ==
    /\ req[r].pc = "fetch"
    /\ outcome = "clarification" => req[r].ep = "refine-report"
    /\ req' = [req EXCEPT ![r] = aiReturned(revision, @, outcome)]
    /\ UNCHANGED <<records, revision, dbConfigured, users, rateLimits, now, load,
                   arrived, ticks, users0, debits, hits, plain>>

\* Date.now() advances. The clock is read by checkRateLimit alone, and only to
\* compare it with a stored windowStart, so an advance is observable only
\* once some window exists.
Tick(d) ==
    /\ ticks < load.ticks
    /\ DOMAIN rateLimits # {}
    /\ d \in load.steps
    /\ now' = now + d
    /\ ticks' = ticks + 1
    /\ UNCHANGED <<records, revision, dbConfigured, users, rateLimits, req, load,
                   arrived, users0, debits, hits, plain>>

\* ---- properties -----------------------------------------------------------
IsPrefix(s, t) == Len(s) <= Len(t) /\ \A i \in 1..Len(s) : s[i] = t[i]

GateOrder == <<"verifyIdToken", "verified", "checkRateLimit", "admitted",
               "once", "update", "debited", "fetch">>

UsedOf(store, p) == OrDefault(store[p], "creditsUsed", 0)
AvailableOf(store, p) ==
    OrDefault(store[p], "creditsTotal", DefaultTotal(revision)) - UsedOf(store, p)

\* C1: an AI call is dispatched for a request only after its token was
\* verified, the rate limiter admitted it and its debit succeeded.
C1_AiOnlyBehindGate ==
    \A r \in Slots :
        Has(req[r], "fetch") =>
            Has(req[r], "verified") /\ Has(req[r], "admitted") /\ Has(req[r], "debited")

\* C2: of the debits of amount 1 made against an account that started with
\* one available credit, at most one reports success.
C2_AtMostOneDebitSucceeds ==
    \A p \in DOMAIN users0 :
        AvailableOf(users0, p) = 1 => debits[p].count <= 1

\* C3: once every request has been answered, creditsUsed of each account is
\* its initial value plus the amounts of all debits that reported success.
C3_EveryDebitCharged ==
    InFlight = {} =>
        \A p \in DOMAIN users0 :
            UsedOf(users, p) = UsedOf(users0, p) + debits[p].sum

\* C4: a request answered 429 has issued no ledger read and no ledger write,
\* and the step that answers 429 leaves the Ledger Store as it was.
C4_RateLimitedLeavesAccount ==
    [][\A r \in Slots :
         req'[r].status = 429 =>
            /\ req'[r].pc = "done"
            /\ ~Has(req'[r], "once") /\ ~Has(req'[r], "update")
            /\ req[r].status # 429 => users' = users]_vars

C4_Witness ==
    \E r \in Slots :
        /\ req[r].status = 429
        /\ req[r].uid \in DOMAIN users
        /\ AvailableOf(users, req[r].uid) >= 1

\* C5: with 30 requests per 60000 ms: a rate check inside the window is
\* admitted while fewer than 30 requests were counted and rejected with 429
\* once 30 were counted; a rate check 60001 ms or more after windowStart is
\* admitted and leaves count = 1 and windowStart = its arrival time.
C5_RateChecked(r) ==
    ~Has(req[r], "checkRateLimit") /\ Has(req'[r], "checkRateLimit")

C5_WindowOf30Per60000 ==
    [][\A r \in Slots :
         C5_RateChecked(r) =>
            LET p == req'[r].uid
                admitted == Has(req'[r], "admitted") /\ req'[r].status # 429
                rejected == ~Has(req'[r], "admitted") /\ req'[r].status = 429
                fresh == [count |-> 1, windowStart |-> now]
            IN  IF p \notin DOMAIN rateLimits
                THEN admitted /\ rateLimits'[p] = fresh
                ELSE LET w == rateLimits[p]
                     IN  /\ (now - w.windowStart <= 60000 /\ w.count < 30) => admitted
                         /\ (now - w.windowStart <= 60000 /\ w.count >= 30) => rejected
                         /\ now - w.windowStart >= 60001 =>
                               admitted /\ rateLimits'[p] = fresh]_vars

\* 31 requests were counted in the window opened at 0 (the last one rejected)
\* and the 32nd, at 60001, opened a new window.
C5_Witness ==
    /\ arrived = 32
    /\ "u1" \in DOMAIN rateLimits
    /\ rateLimits["u1"] = [count |-> 1, windowStart |-> 60001]
    /\ \E r \in Slots : Has(req[r], "admitted") /\ req[r].uid = "u1"

\* C6: the stored count is the number of rate checks made since the window
\* was opened, whether they were admitted or rejected.
C6_RejectedRequestsCount ==
    \A p \in DOMAIN rateLimits : rateLimits[p].count = hits[p]

C6_Witness ==
    \E r \in Slots :
        /\ req[r].status = 429
        /\ rateLimits[req[r].uid].count = 32

\* C7: in the protected revisions no step of a request whose token has not
\* been verified changes a RateWindow entry or the Ledger Store or issues a
\* ledger call, and such a request, when answered, is answered 401.
C7_UnauthenticatedTouchesNothing ==
    [][\A r \in Slots :
         (Protected(revision) /\ req'[r] # req[r] /\ ~Has(req'[r], "verified")) =>
            /\ rateLimits' = rateLimits
            /\ users' = users
            /\ Range(req'[r].log) \cap {"checkRateLimit", "once", "update", "fetch"} = {}
            /\ req'[r].pc = "done" => req'[r].status = 401]_vars

C7_Witness ==
    /\ \E r \in Slots : req[r].status = 401 /\ req[r].hdr = "Bearer bad"
    /\ \E r \in Slots : req[r].status = 401 /\ req[r].hdr = "Basic x"
    /\ DOMAIN users # {}

\* C8: a debit that reads available < amount is answered 402, issues no
\* ledger write and leaves the Ledger Store as it was; in v2 it reports
\* exactly that available value and required = amount (creditsTotal = 10,
\* creditsUsed = 9, amount = 2 gives available = 1, required = 2).
C8_Example ==
    LET d == useCreditsDecide("v2", [u \in {"u1"} |->
                                       [creditsTotal |-> 10, creditsUsed |-> 9]],
                              "u1", 2)
    IN  /\ ~d.write
        /\ ~d.result.success
        /\ d.result.available = 1
        /\ d.result.required = 2

C9_NoRefund ==
    [][\A r \in Slots :
         (/\ req[r].pc = "fetch"
          /\ Has(req[r], "debited")
          /\ req'[r].aiOutcome \in {"notOk", "rejects"}) =>
             /\ req'[r].pc = "done"
             /\ req'[r].status = 500
             /\ users' = users
             /\ req'[r].log = req[r].log
             /\ Cardinality({i \in DOMAIN req'[r].log : req'[r].log[i] = "update"}) = 1]_vars

C9_Witness ==
    \E r \in Slots :
        /\ req[r].status = 500
        /\ req[r].aiOutcome = "rejects"
        /\ Has(req[r], "debited")
        /\ UsedOf(users, req[r].uid) = UsedOf(users0, req[r].uid) + 1

\* C10: in v2 the stages of a request happen in the order verification,
\* rate-limit check, ledger read, ledger write, AI call, none skipped.
C10_StagesInOrder ==
    revision = "v2" => \A r \in Slots : IsPrefix(req[r].log, GateOrder)

C10_Witness ==
    revision = "v2" /\ \E r \in Slots : req[r].log = GateOrder

\* The credit fields of the account record of p (none when no record).
CreditFields(store, p) ==
    IF p \in DOMAIN store THEN Restrict(store[p], {"creditsTotal", "creditsUsed"})
    ELSE Empty

\* C11: creditsUsed and creditsTotal of an existing account change only in
\* the step that applies the write of a debit of that principal; no step of
\* a request to PUT /api/users/:id or POST /api/users changes them.
C11_OnlyDebitChangesCredits ==
    [][\A p \in DOMAIN users :
         CreditFields(users', p) # CreditFields(users, p) =>
            \E r \in Slots : /\ req[r].pc = "update"
                             /\ req[r].uid = p
                             /\ Has(req'[r], "debited")]_vars

\* C12: in v2, where only the debit writes creditsUsed, no step lowers the
\* stored creditsUsed of an account, whatever the interleaving of the reads
\* and writes of concurrent debits.
C12_CreditsUsedMonotone ==
    [][revision = "v2" =>
         \A p \in DOMAIN users : UsedOf(users', p) >= UsedOf(users, p)]_vars

\* creditsTotal - creditsUsed of the stored record, creditsTotal taking its
\* default when the record has none.
StoredAvailable(store, p) ==
    (IF "creditsTotal" \in DOMAIN store[p] THEN store[p].creditsTotal
     ELSE DefaultTotal(revision)) - UsedOf(store, p)

\* C13: for an account that started with creditsUsed <= creditsTotal, the
\* stored creditsTotal - creditsUsed is never negative after any interleaving
\* of debits, and no successful debit reports a negative remaining.
C13_AvailableNeverNegative ==
    \A p \in DOMAIN users0 :
        StoredAvailable(users0, p) >= 0 =>
            /\ StoredAvailable(users, p) >= 0
            /\ \A r \in Slots :
                  (req[r].uid = p /\ req[r].creditResult.success
                   /\ "remaining" \in DOMAIN req[r].creditResult) =>
                      req[r].creditResult.remaining >= 0

\* C14: a debit whose read finds no account record of the verified principal
\* fails (in v2 with "Utente non trovato"): the request is answered 402, it
\* issues no ledger write and no AI call, and no record is created.
C14_AccountNotFound ==
    [][\A r \in Slots :
         (/\ req[r].pc = "once"
          /\ req'[r].pc # "once"
          /\ req'[r].status # 500
          /\ req[r].uid \notin DOMAIN users) =>
             /\ req'[r].pc = "done"
             /\ req'[r].status = 402
             /\ ~req'[r].creditResult.success
             /\ revision = "v2" =>
                   req'[r].creditResult.error = <<"Utente non trovato">>
             /\ ~Has(req'[r], "update") /\ ~Has(req'[r], "fetch")
             /\ users' = users
             /\ req[r].uid \notin DOMAIN users']_vars

C14_Witness ==
    \E r \in Slots :
        /\ revision = "v2"
        /\ Has(req[r], "once")
        /\ req[r].status = 402
        /\ req[r].uid = "u1"
        /\ "u1" \notin DOMAIN users
        /\ req[r].creditResult.error = <<"Utente non trovato">>

\* C15: on every metered endpoint, a request whose debit reads
\* available < amount is answered 402 with a payload that carries the
\* available amount and the required amount.
C15_PayloadHasAvailableAndRequired ==
    [][\A r \in Slots :
         (/\ req[r].pc = "once"
          /\ req'[r].pc # "once"
          /\ req'[r].status # 500
          /\ req[r].uid \in DOMAIN users
          /\ AvailableOf(users, req[r].uid) < Cost(revision, req[r].ep)) =>
             /\ req'[r].status = 402
             /\ "creditsAvailable" \in DOMAIN req'[r].out
             /\ req'[r].out.creditsAvailable = AvailableOf(users, req[r].uid)
             /\ "creditsRequired" \in DOMAIN req'[r].out
             /\ req'[r].out.creditsRequired = Cost(revision, req[r].ep)]_vars

\* C16: a metered request that passed verification, rate limiting and
\* validation is answered 503 when the database is not configured or its
\* ledger write failed, and 402 or 503 when its ledger read did not lead to
\* a write (insufficient credits or no account, or the read failed).
C16_LedgerUnavailableIs503 ==
    \A r \in Slots :
        (/\ req[r].pc = "done"
         /\ Protected(revision)
         /\ req[r].ep \in Endpoints(revision)
         /\ Has(req[r], "verified")
         /\ revision = "v2" => Has(req[r], "admitted")
         /\ req[r].body) =>
            /\ ~dbConfigured => req[r].status = 503
            /\ (Has(req[r], "update") /\ ~Has(req[r], "debited")) =>
                  req[r].status = 503
            /\ (Has(req[r], "once") /\ ~Has(req[r], "update")) =>
                  req[r].status \in {402, 503}

\* C17: in v2 every metered request answered 200, the clarification answer
\* of refine-report included, carries creditsRemaining = the available
\* amount its debit read minus the amount it debited.
C17_SuccessCarriesRemaining ==
    revision = "v2" =>
        \A r \in Slots :
            (req[r].pc = "done" /\ req[r].status = 200) =>
                /\ "creditsRemaining" \in DOMAIN req[r].out
                /\ req[r].out.creditsRemaining =
                      OrDefault(users[req[r].uid], "creditsTotal", DefaultTotal(revision))
                        - req[r].writeVal

\* C18: the amount a debit adds to the creditsUsed it read is 1 for
\* transcribe, refine-report and convert-pdf and more than 1 for
\* generate-report.
C18_CostPerOperation ==
    [][\A r \in Slots :
         (req[r].pc = "once" /\ req'[r].pc = "update") =>
            LET amount == req'[r].writeVal - UsedOf(users, req[r].uid)
            IN  IF req[r].ep = "generate-report" THEN amount > 1 ELSE amount = 1]_vars

\* What an unverified caller is told, as a function of its request alone.
UnverifiedAnswer(hdr) ==
    IF hdr \in BearerHeaders
    THEN [status |-> 401, out |-> [error |-> <<"invalid token">>]]
    ELSE [status |-> 401, out |-> [error |-> <<"missing token">>]]

\* C19: in the protected revisions the status and body answered to a request
\* whose token was not verified are determined by the request alone: they are
\* the same in all states, whatever the RateWindow entries and the accounts.
C19_UnverifiedAnswerIgnoresState ==
    \A r \in Slots :
        (Protected(revision) /\ req[r].pc = "done" /\ ~Has(req[r], "verified")) =>
            [status |-> req[r].status, out |-> req[r].out] = UnverifiedAnswer(req[r].hdr)

\* An unverified caller is answered after a debit of u1 and with u1's window
\* open (the same request is also answered at server start).
C19_Witness ==
    \E r \in Slots :
        /\ revision = "v2"
        /\ req[r].pc = "done"
        /\ req[r].hdr \in {"none", "Bearer bad"}
        /\ "u1" \in DOMAIN rateLimits
        /\ "u1" \in DOMAIN users
        /\ UsedOf(users, "u1") > UsedOf(users0, "u1")

\* C20: a rate check of a request of principal p (whichever of p's tokens it
\* carries) creates or updates the entry of p and leaves every other entry as
\* it was, and whether it admits is decided by p's entry and the clock alone.
C20_WindowPerPrincipal ==
    [][\A r \in Slots :
         C5_RateChecked(r) =>
            LET p == TokenUid(req[r].hdr)
                first == p \notin DOMAIN rateLimits
            IN  /\ req'[r].uid = p
                /\ DOMAIN rateLimits' = DOMAIN rateLimits \cup {p}
                /\ \A q \in DOMAIN rateLimits \ {p} : rateLimits'[q] = rateLimits[q]
                /\ rateLimits'[p].count =
                      IF first \/ now - rateLimits[p].windowStart > RATE_LIMIT_WINDOW
                      THEN 1 ELSE rateLimits[p].count + 1
                /\ Has(req'[r], "admitted") <=>
                      \/ first
                      \/ now - rateLimits[p].windowStart > RATE_LIMIT_WINDOW
                      \/ rateLimits[p].count < RATE_LIMIT_MAX_REQUESTS]_vars

\* u2 has been rejected (31 counted) and u1, with its second token, is
\* admitted as the second request of u1's own window.
C20_Witness ==
    \E r \in Slots :
        /\ req[r].hdr = "Bearer t1b"
        /\ Has(req[r], "admitted")
        /\ DOMAIN rateLimits = {"u1", "u2"}
        /\ rateLimits["u1"] = [count |-> 2, windowStart |-> 0]
        /\ rateLimits["u2"] = [count |-> RATE_LIMIT_MAX_REQUESTS + 1, windowStart |-> 0]

\* C21: a rejected rate check leaves windowStart where it was, and a rate
\* check made more than 60000 ms after windowStart is admitted however many
\* requests were counted, rejected ones included.
C21_ReadmittedAfterWindow ==
    [][\A r \in Slots :
         (C5_RateChecked(r) /\ req'[r].uid \in DOMAIN rateLimits) =>
            LET p == req'[r].uid
                w == rateLimits[p]
            IN  /\ req'[r].status = 429 =>
                      rateLimits'[p].windowStart = w.windowStart
                /\ (w.count > RATE_LIMIT_MAX_REQUESTS
                    /\ now - w.windowStart > RATE_LIMIT_WINDOW) =>
                      /\ Has(req'[r], "admitted")
                      /\ req'[r].status # 429
                      /\ rateLimits'[p] = [count |-> 1, windowStart |-> now]]_vars

\* 32 requests were counted at time 0 (two of them rejected) and the 33rd,
\* at 60001, is admitted.
C21_Witness ==
    /\ arrived = 33
    /\ now = RATE_LIMIT_WINDOW + 1
    /\ "u1" \in DOMAIN rateLimits
    /\ rateLimits["u1"] = [count |-> 1, windowStart |-> RATE_LIMIT_WINDOW + 1]
    /\ \E r \in Slots : Has(req[r], "admitted") /\ req[r].uid = "u1"

\* C22: with requests of one principal handled concurrently, the count of
\* its window is the number of its requests that passed verification since
\* the window was opened: no update of the entry is lost.
C22_NoLostWindowUpdate ==
    \A p \in DOMAIN rateLimits :
        /\ rateLimits[p].count = hits[p]
        /\ ticks = 0 =>
              rateLimits[p].count >=
                 Cardinality({r \in Slots : /\ req[r].uid = p
                                            /\ Has(req[r], "checkRateLimit")})

\* Two requests of u1 are suspended at their ledger reads at the same time,
\* both counted.
C22_Witness ==
    /\ \A r \in Slots : req[r].pc = "once" /\ req[r].uid = "u1"
    /\ "u1" \in DOMAIN rateLimits
    /\ rateLimits["u1"].count = 2

\* How often a request made the call it logs as e.
Calls(q, e) == Cardinality({i \in DOMAIN q.log : q.log[i] = e})

\* C23: a request calls the Identity Verifier at most once, issues at most
\* one ledger read and at most one ledger write and makes at most one AI
\* call, whichever of these calls fail.
C23_NoRetry ==
    \A r \in Slots :
        \A e \in {"verifyIdToken", "once", "update", "fetch"} : Calls(req[r], e) <= 1

\* One request ended on a failed ledger write, the other on a failed AI call.
C23_Witness ==
    /\ \E r \in Slots : /\ req[r].pc = "done" /\ req[r].status = 500
                         /\ Has(req[r], "update") /\ ~Has(req[r], "debited")
    /\ \E r \in Slots : /\ req[r].pc = "done" /\ req[r].status = 500
                         /\ req[r].aiOutcome = "rejects"

\* C24: a debit that reads an account whose stored creditsTotal is 0 fails
\* with insufficient credits (402, no ledger write): the default quota is
\* for an absent creditsTotal only.
C24_ZeroTotalIsZero ==
    [][\A r \in Slots :
         (/\ req[r].pc = "once"
          /\ req'[r].pc # "once"
          /\ req'[r].status # 500
          /\ req[r].uid \in DOMAIN users
          /\ "creditsTotal" \in DOMAIN users[req[r].uid]
          /\ users[req[r].uid].creditsTotal = 0) =>
             /\ req'[r].pc = "done"
             /\ req'[r].status = 402
             /\ ~Has(req'[r], "update")]_vars

\* C25: in the protected revisions a request whose Authorization header is
\* absent or does not start with "Bearer " is answered 401 in the step it
\* arrives in, and the Identity Verifier is never called for it.
C25_NoHeaderNoVerifierCall ==
    \A r \in Slots :
        (Protected(revision) /\ req[r].pc # "idle"
         /\ req[r].hdr \notin BearerHeaders) =>
            /\ req[r].pc = "done"
            /\ req[r].status = 401
            /\ ~Has(req[r], "verifyIdToken")

C25_Witness ==
    /\ Protected(revision)
    /\ req[1].pc = "verifyIdToken"
    /\ req[2].pc = "done" /\ req[2].hdr = "Basic x" /\ req[2].status = 401
    /\ req[2].log = <<>>

\* C26: a stored project, call or template changes or disappears only in the
\* step that applies the write of a request authenticated as its owner; in
\* particular a POST of another principal with its id leaves it as it is.
C26_OnlyOwnerWrites ==
    [][\A path \in DOMAIN records :
          (path \notin DOMAIN records' \/ records'[path] # records[path]) =>
              \E r \in Slots :
                  /\ req[r].pc = "recordWrite" /\ req'[r].pc = "done"
                  /\ req[r].uid = OwnerOf(records[path])]_vars

\* C27: a request to a metered endpoint is answered exactly once, with 401,
\* 429, 400, 402, 500 or success, and never a second time; when every call to
\* the verifier, the ledger and the AI provider returns or fails, a request
\* that was received is eventually answered.
C27_OneResponseAndTermination ==
    /\ [](\A r \in Slots :
            /\ req[r].pc \notin {"idle", "done"} => req[r].sent = 0
            /\ req[r].pc = "done" =>
                  /\ req[r].sent = 1
                  /\ req[r].status \in {401, 429, 400, 402, 500, 200})
    /\ \A r \in Slots :
          (req[r].pc \notin {"idle", "done"}) ~> (req[r].pc = "done")

C27_Witness ==
    /\ revision = "v2"
    /\ req[1].pc = "done" /\ req[1].ep = "refine-report"
    /\ req[1].aiOutcome = "clarification" /\ req[1].sent = 1
    /\ req[2].pc = "done" /\ req[2].ep = "transcribe" /\ req[2].status = 402

\* C28: a metered request of a verified, admitted principal whose body lacks
\* a required field is answered 400 in the step that admits it: the ledger is
\* left as it is, no ledger read, ledger write or AI call is issued, and in v2
\* the request has been counted in the principal's rate window.
C28_InvalidBodyBeforeDebit ==
    [][\A r \in Slots :
          (/\ req[r].pc = "verifyIdToken" /\ req'[r].pc # "verifyIdToken"
           /\ req[r].ep \in Endpoints(revision) /\ ~req[r].body
           /\ Has(req'[r], "verified") /\ req'[r].status # 429) =>
              LET p == req'[r].uid
              IN  /\ req'[r].pc = "done" /\ req'[r].status = 400
                  /\ users' = users
                  /\ \A e \in {"once", "update", "fetch"} : ~Has(req'[r], e)
                  /\ revision = "v2" =>
                        /\ Has(req'[r], "checkRateLimit")
                        /\ p \in DOMAIN rateLimits'
                        /\ rateLimits'[p].count =
                              IF /\ p \in DOMAIN rateLimits
                                 /\ now - rateLimits[p].windowStart
                                      <= RATE_LIMIT_WINDOW
                              THEN rateLimits[p].count + 1 ELSE 1]_vars

C28_Witness ==
    \E r \in Slots :
        /\ revision = "v2" /\ arrived = 2
        /\ req[r].pc = "done" /\ ~req[r].body /\ req[r].status = 400
        /\ req[r].uid \in DOMAIN users /\ users = users0
        /\ req[r].uid \in DOMAIN rateLimits
        /\ rateLimits[req[r].uid].count = 2

\* C29: in v2 every verified request, whatever its route, is counted in the
\* one window of its principal, so the non-metered requests of a window are
\* part of its count; a metered request verified in a window that already
\* holds 30 non-metered requests is answered 429 with no ledger read, no
\* ledger write, no AI call and the ledger as it was.
C29_OneWindowForAllRoutes ==
    [][\A r \in Slots :
          (revision = "v2" /\ req[r].pc = "verifyIdToken"
           /\ req'[r].pc # "verifyIdToken" /\ Has(req'[r], "verified")) =>
              LET p == req'[r].uid
                  inWindow == /\ p \in DOMAIN rateLimits
                              /\ now - rateLimits[p].windowStart
                                   <= RATE_LIMIT_WINDOW
              IN  /\ p \in DOMAIN rateLimits'
                  /\ rateLimits'[p].count =
                        IF inWindow THEN rateLimits[p].count + 1 ELSE 1
                  /\ plain'[p] <= rateLimits'[p].count
                  /\ (/\ inWindow /\ plain[p] >= RATE_LIMIT_MAX_REQUESTS
                      /\ req[r].ep \in Endpoints(revision)) =>
                        /\ req'[r].pc = "done" /\ req'[r].status = 429
                        /\ users' = users
                        /\ \A e \in {"once", "update", "fetch"} :
                              ~Has(req'[r], e)]_vars

C29_Witness ==
    \E r \in Slots :
        /\ revision = "v2"
        /\ req[r].ep = "transcribe" /\ req[r].body
        /\ req[r].pc = "done" /\ req[r].status = 429
        /\ ~Has(req[r], "once")
        /\ plain["u1"] = RATE_LIMIT_MAX_REQUESTS
        /\ rateLimits["u1"].count = RATE_LIMIT_MAX_REQUESTS + 1
        /\ "u1" \in DOMAIN users /\ users = users0
        /\ AvailableOf(users, "u1") > 0

Next ==
    \/ \E r \in Slots, ep \in Endpoints(revision), hdr \in Headers :
          \E body \in Bodies(ep) : Arrive(r, ep, hdr, body)
    \/ \E r \in Slots : VerifyIdTokenReturns(r)
    \/ \E r \in Slots, ok \in BOOLEAN : LedgerReadReturns(r, ok)
    \/ \E r \in Slots, ok \in BOOLEAN : LedgerWriteReturns(r, ok)
    \/ \E r \in Slots, outcome \in AiOutcomes : AiReturns(r, outcome)
    \/ \E d \in {RATE_LIMIT_WINDOW, RATE_LIMIT_WINDOW + 1} : Tick(d)

\* The server with its account routes.
NextAccount ==
    \/ Next
    \/ \E r \in Slots, ep \in AccountRoutes(revision), hdr \in Headers :
          \E id \in AccountIds(ep), fields \in AccountBodies(ep) :
             ArriveAccount(r, ep, hdr, id, fields)
    \/ \E r \in Slots, ok \in BOOLEAN : AccountWriteReturns(r, ok)

\* The server with the listing of projects next to its metered routes.
NextShared ==
    \/ Next
    \/ \E r \in Slots, hdr \in Headers :
          ArriveRecord(r, "projects-get", hdr, "", Empty)
    \/ \E r \in Slots, ok \in BOOLEAN : RecordReadReturns(r, ok)

\* The steps of a server that is asked for record routes only.
NextRecords ==
    \/ \E r \in Slots, ep \in RecordRoutes, hdr \in Headers, id \in RecordIds :
          \E fields \in RecordBodies(ep) : ArriveRecord(r, ep, hdr, id, fields)
    \/ \E r \in Slots : VerifyIdTokenReturns(r)
    \/ \E r \in Slots, ok \in BOOLEAN : RecordReadReturns(r, ok)
    \/ \E r \in Slots, ok \in BOOLEAN : RecordWriteReturns(r, ok)
    \/ \E d \in RecordLoad.steps : Tick(d)

Spec == Init /\ [][Next]_vars
SpecBurst == InitBurst /\ [][Next]_vars
SpecAccount == InitAccount /\ [][NextAccount]_vars
SpecWindow == InitWindow /\ [][Next]_vars
\* Every call to a collaborator returns or fails: the verifier, the ledger
\* read, the ledger write and the AI provider answer each pending request.
SpecLive ==
    /\ InitLive
    /\ [][Next]_vars
    /\ \A r \in Slots :
          /\ WF_vars(VerifyIdTokenReturns(r))
          /\ WF_vars(\E ok \in BOOLEAN : LedgerReadReturns(r, ok))
          /\ WF_vars(\E ok \in BOOLEAN : LedgerWriteReturns(r, ok))
          /\ WF_vars(\E outcome \in AiOutcomes : AiReturns(r, outcome))
SpecShared == InitShared /\ [][NextShared]_vars
SpecRecords == InitRecords /\ [][NextRecords]_vars
====
